---- MODULE Spec2Model ----
(***************************************************************************)
(* Model of WordLetter1/server/index.js: the three letter endpoints        *)
(*   POST /api/letters      (create-letter)                                *)
(*   GET  /api/letters      (list-letters)                                 *)
(*   GET  /api/letters/:id  (read-letter)                                  *)
(* Each handler is an async function; it runs from one await to the next   *)
(* without interruption, and other requests may run in between.  An action *)
(* of the model is one such stretch: a downstream call issued earlier      *)
(* completes (with a result or with an error) and the handler continues to *)
(* its next await or to its response.  The Drive/Docs store the handlers   *)
(* talk to is the variable files; a downstream call that fails has no      *)
(* effect on it.                                                           *)
(*                                                                         *)
(* Spec      : the three endpoints, concurrent requests of one client      *)
(* SpecSeq   : create-letter requests served one after another             *)
(* SpecTrash : create-letter and list-letters requests with every field,   *)
(*             while the user of the Drive account trashes files           *)
(* SpecDup   : the same requests, no trashing, on a Drive that starts with *)
(*             up to MaxDup folders named "Letters"                        *)
(* SpecRead  : one read-letter request for a document of any body          *)
(* SpecTokens: the three endpoints, requests with different tokens         *)
(* SpecLive  : Spec with every outstanding downstream call completing      *)
(***************************************************************************)
EXTENDS Integers, Sequences, FiniteSets, TLC

\* --------------------------------------------------------------------------
\* Bounds of the model
\* --------------------------------------------------------------------------
NReq == 2        \* number of requests the server receives
MaxFiles == 4    \* the Drive holds at most this many files (root included)
MaxTrash == 1    \* number of times the user trashes a file in the Drive UI

Req == 1..NReq

\* --------------------------------------------------------------------------
\* Values
\* --------------------------------------------------------------------------
Undefined == "<undefined>"   \* a field that the request does not carry
NoId == 0                    \* a local variable that was not assigned yet
RootId == 1                  \* the Drive root folder ("My Drive")

\* what a client may send in each field
Contents == {Undefined, "Dear A"}
Titles == {"", "T1"}
Tokens == {Undefined, "tokA", "tokB"}
\* what one client sends as its token, when it sends one
ValidToken == "tokA"
ClientTokens == {Undefined, ValidToken}
ErrorDetails == {"auth rejected", "quota exceeded"}

FolderMime == "application/vnd.google-apps.folder"
DocMime == "application/vnd.google-apps.document"
LettersName == "Letters"
InsertIndex == 1

FalsyEmptyOnly(v) == v = ""

\* JavaScript's !v for a string field: undefined and "" are falsy
Falsy(v) == v = Undefined \/ v = ""

\* the sequences that enumerate the finite set S without repetition
Perms(S) ==
  {s \in [1..Cardinality(S) -> S] : \A i, j \in 1..Cardinality(S) : s[i] = s[j] => i = j}

\* --------------------------------------------------------------------------
\* State
\* --------------------------------------------------------------------------
VARIABLES
  files,   \* the Drive: files[i] is the file with id i
  req,     \* req[r]: the handler invocation of request r
  trashes  \* number of files the user has trashed so far

vars == <<files, req, trashes>>

\* the request before it arrives
IdleReq ==
  [pc |-> "idle", kind |-> "none",
   content |-> Undefined, title |-> Undefined, accessToken |-> Undefined, id |-> NoId,
   auth |-> Undefined, folderId |-> NoId, documentId |-> NoId,
   calls |-> <<>>, status |-> 0, body |-> [none |-> TRUE], sent |-> 0, logged |-> ""]

RootFolder ==
  [mimeType |-> FolderMime, name |-> "My Drive", hasBody |-> FALSE, body |-> <<>>,
   parents |-> {}, trashed |-> FALSE]

Init ==
  /\ files = <<RootFolder>>
  /\ req = [r \in Req |-> IdleReq]
  /\ trashes = 0

FileIds == 1..Len(files)

\* --------------------------------------------------------------------------
\* The downstream API as the handlers use it
\* --------------------------------------------------------------------------
\* the query of lines 80 and 166
FolderQuery == [by |-> "name", mimeType |-> FolderMime, name |-> LettersName, parent |-> NoId]
\* the query of line 178
FileQuery(folderId) == [by |-> "parent", mimeType |-> DocMime, name |-> "", parent |-> folderId]

\* ids of the files a query matches (both queries ask for trashed=false)
Matches(fs, q) ==
  {i \in 1..Len(fs) :
     /\ fs[i].mimeType = q.mimeType
     /\ ~fs[i].trashed
     /\ IF q.by = "name" THEN fs[i].name = q.name ELSE q.parent \in fs[i].parents}

\* a folder lookup that answers from what an earlier request found
FilesListCached(fs, q) ==
  IF q.by = "name" /\ \E r \in Req : req[r].folderId # NoId
    THEN {<<req[CHOOSE r \in Req : req[r].folderId # NoId].folderId>>}
    ELSE Perms(Matches(fs, q))

\* drive.files.list: the matching files, in an order the API chooses
FilesList(fs, q) == Perms(Matches(fs, q))

\* drive.files.create / docs.documents.create: a new file in the root folder
NewFile(mime, name) ==
  [mimeType |-> mime, name |-> name, hasBody |-> (mime = DocMime), body |-> <<>>,
   parents |-> {RootId}, trashed |-> FALSE]

\* docs batchUpdate insertText: the text becomes one run of a paragraph at the index
InsertText(body, index, text) ==
  IF index = 1
    THEN <<[kind |-> "paragraph", elements |-> <<[kind |-> "textRun", content |-> text]>>]>> \o body
    ELSE body

AddParentsMove(parents, folderId) == {folderId}

AddParentsNone(parents, folderId) == parents

\* drive.files.update addParents
AddParents(parents, folderId) == parents \cup {folderId}

\* a call made with the credentials that the request which arrived last set on
\* a client shared by all requests
CallShared(api, token, arg) ==
  LET arrived == {q \in Req : req[q].auth # Undefined}
      last == CHOOSE q \in arrived : \A p \in arrived : p <= q
  IN [api |-> api, token |-> (IF arrived = {} THEN token ELSE req[last].auth),
      arg |-> arg, outcome |-> "pending", result |-> <<>>]

\* a call record in the log of a request
Call(api, token, arg) ==
  [api |-> api, token |-> token, arg |-> arg, outcome |-> "pending", result |-> <<>>]

\* the last call of the log completes
Complete(calls, outcome, result) ==
  [calls EXCEPT ![Len(calls)] = [@ EXCEPT !.outcome = outcome, !.result = result]]

\* res.status(s).json(b)
Respond(rq, s, b) ==
  [rq EXCEPT !.pc = "done", !.status = s, !.body = b, !.sent = @ + 1]

\* a request may arrive once the requests before it have arrived
CanArrive(r) ==
  /\ req[r].pc = "idle"
  /\ \A q \in Req : q < r => req[q].pc # "idle"

\* --------------------------------------------------------------------------
\* POST /api/letters
\* --------------------------------------------------------------------------
SaveError == [error |-> "Failed to save letter to Google Drive"]

\* template literal of line 139
DocumentUrl(documentId) == <<"https://docs.google.com/document/d/", documentId, "/edit">>

MissingFieldsNoTitle(content, title, accessToken) ==
  Falsy(content) \/ Falsy(accessToken)

\* line 65: the three fields of the body are required
MissingFields(content, title, accessToken) ==
  Falsy(content) \/ Falsy(title) \/ Falsy(accessToken)

LastEntry(res) == res[Len(res)]

\* lines 85 and 174: files[0] of a query result
FirstEntry(res) == res[1]

FolderExistsOffByOne(res) == Len(res) > 1

\* line 84: the query found a folder
FolderExists(res) == Len(res) > 0

CreateFolderIfAbsent(fs) ==
  IF Matches(fs, FolderQuery) # {} THEN fs ELSE Append(fs, NewFile(FolderMime, LettersName))

\* lines 92-95: the folder the Drive creates
CreateFolder(fs) == Append(fs, NewFile(FolderMime, LettersName))

CreateDocumentInFolder(fs, rq) ==
  Append(fs, [NewFile(DocMime, rq.title) EXCEPT !.parents = {rq.folderId}])

\* lines 104-108: the document the Docs API creates
CreateDocument(fs, rq) == Append(fs, NewFile(DocMime, rq.title))

NewDocIdByTitle(fs, rq) ==
  IF \E i \in 1..Len(fs) : fs[i].mimeType = DocMime /\ fs[i].name = rq.title
    THEN CHOOSE i \in 1..Len(fs) : fs[i].mimeType = DocMime /\ fs[i].name = rq.title
    ELSE Len(fs) + 1

\* line 110: the id the Docs API mints for the new document
NewDocId(fs, rq) == Len(fs) + 1

InsertRequestsTitle(rq) == <<[insertText |-> [index |-> InsertIndex, text |-> rq.title]]>>

\* lines 116-125: the requests of the batch update
InsertRequests(rq) == <<[insertText |-> [index |-> InsertIndex, text |-> rq.content]]>>

SavedBodyFolderUrl(rq) ==
  [message |-> "Letter saved successfully",
   documentId |-> rq.documentId,
   documentUrl |-> DocumentUrl(rq.folderId)]

\* lines 136-140: the body of the 201 response
SavedBody(rq) ==
  [message |-> "Letter saved successfully",
   documentId |-> rq.documentId,
   documentUrl |-> DocumentUrl(rq.documentId)]

PostFailLeak(r, detail) ==
  req' = [req EXCEPT ![r] =
            Respond([@ EXCEPT !.calls = Complete(@, "error", <<>>), !.logged = detail],
                    500, [error |-> detail])]

\* catch block, lines 142-145
PostFail(r, detail) ==
  req' = [req EXCEPT ![r] =
            Respond([@ EXCEPT !.calls = Complete(@, "error", <<>>), !.logged = detail],
                    500, SaveError)]

\* lines 62-82: validation, client setup, folder query issued
PostLettersStart(r, tokens) ==
  /\ CanArrive(r)
  /\ \E content \in Contents, title \in Titles, accessToken \in tokens :
       LET rq == [req[r] EXCEPT !.kind = "create", !.content = content,
                                !.title = title, !.accessToken = accessToken]
       IN IF MissingFields(content, title, accessToken)
            THEN req' = [req EXCEPT ![r] =
                           Respond(rq, 400, [error |-> "Missing required fields"])]
            ELSE req' = [req EXCEPT ![r] =
                           [rq EXCEPT !.auth = accessToken,
                                      !.pc = "folderQuery",
                                      !.calls = <<Call("drive.files.list", accessToken, FolderQuery)>>]]
  /\ UNCHANGED <<files, trashes>>

\* lines 79-98 and 101-108: the folder query returns
PostLettersFolderQuery(r) ==
  /\ req[r].pc = "folderQuery"
  /\ \/ \E res \in FilesList(files, FolderQuery) :
          LET done == [req[r] EXCEPT !.calls = Complete(@, "ok", res)]
          IN IF FolderExists(res)
               THEN req' = [req EXCEPT ![r] =
                              [done EXCEPT !.folderId = FirstEntry(res),
                                           !.pc = "docCreate",
                                           !.calls = Append(@, Call("docs.documents.create",
                                                                    done.auth, done.title))]]
               ELSE req' = [req EXCEPT ![r] =
                              [done EXCEPT !.pc = "folderCreate",
                                           !.calls = Append(@, Call("drive.files.create",
                                                                    done.auth, LettersName))]]
     \/ \E d \in ErrorDetails : PostFail(r, d)
  /\ UNCHANGED <<files, trashes>>

\* lines 92-108: the folder-create call returns
PostLettersFolderCreate(r) ==
  /\ req[r].pc = "folderCreate"
  /\ \/ /\ Len(files) < MaxFiles
        /\ files' = CreateFolder(files)
        /\ req' = [req EXCEPT ![r] =
                     [@ EXCEPT !.folderId = Len(files) + 1,
                               !.pc = "docCreate",
                               !.calls = Append(Complete(@, "ok", <<Len(files) + 1>>),
                                                Call("docs.documents.create",
                                                     req[r].auth, req[r].title))]]
     \/ /\ \E d \in ErrorDetails : PostFail(r, d)
        /\ UNCHANGED files
  /\ UNCHANGED trashes

\* lines 104-127: the document-create call returns
PostLettersDocCreate(r) ==
  /\ req[r].pc = "docCreate"
  /\ \/ /\ Len(files) < MaxFiles
        /\ files' = CreateDocument(files, req[r])
        /\ LET documentId == NewDocId(files, req[r])
           IN req' = [req EXCEPT ![r] =
                        [@ EXCEPT !.documentId = documentId,
                                  !.pc = "insertText",
                                  !.calls = Append(Complete(@, "ok", <<documentId>>),
                                                   Call("docs.documents.batchUpdate", req[r].auth,
                                                        [documentId |-> documentId,
                                                         requests |-> InsertRequests(req[r])]))]]
     \/ /\ \E d \in ErrorDetails : PostFail(r, d)
        /\ UNCHANGED files
  /\ UNCHANGED trashes

\* the effect of a batchUpdate on the document
ApplyBatch(body, requests) ==
  InsertText(body, requests[1].insertText.index, requests[1].insertText.text)

\* lines 113-134: the batch update returns
PostLettersInsertText(r) ==
  /\ req[r].pc = "insertText"
  /\ LET c == req[r].calls[Len(req[r].calls)]
     IN \/ /\ files' = [files EXCEPT ![c.arg.documentId].body =
                                        ApplyBatch(@, c.arg.requests)]
           /\ req' = [req EXCEPT ![r] =
                        [@ EXCEPT !.pc = "reparent",
                                  !.calls = Append(Complete(@, "ok", <<>>),
                                                   Call("drive.files.update", req[r].auth,
                                                        [fileId |-> req[r].documentId,
                                                         addParents |-> req[r].folderId]))]]
        \/ /\ \E d \in ErrorDetails : PostFail(r, d)
           /\ UNCHANGED files
  /\ UNCHANGED trashes

\* lines 130-140: the update (reparent) call returns, the response is sent
PostLettersReparent(r) ==
  /\ req[r].pc = "reparent"
  /\ LET c == req[r].calls[Len(req[r].calls)]
     IN \/ /\ files' = [files EXCEPT ![c.arg.fileId].parents =
                                        AddParents(@, c.arg.addParents)]
           /\ req' = [req EXCEPT ![r] =
                        Respond([@ EXCEPT !.calls = Complete(@, "ok", <<>>)], 201,
                                SavedBody(req[r]))]
        \/ /\ \E d \in ErrorDetails : PostFail(r, d)
           /\ UNCHANGED files
  /\ UNCHANGED trashes

\* --------------------------------------------------------------------------
\* GET /api/letters
\* --------------------------------------------------------------------------
FetchListError == [error |-> "Failed to fetch letters from Google Drive"]

ListFailEmpty(r, detail) ==
  req' = [req EXCEPT ![r] =
            Respond([@ EXCEPT !.calls = Complete(@, "error", <<>>), !.logged = detail],
                    200, [letters |-> <<>>])]

\* catch block, lines 184-187
ListFail(r, detail) ==
  req' = [req EXCEPT ![r] =
            Respond([@ EXCEPT !.calls = Complete(@, "error", <<>>), !.logged = detail],
                    500, FetchListError)]

\* without the return of line 171 the handler goes on, throws on files[0] and
\* answers again from the catch block
NoFolderResponseFallThrough(rq) ==
  Respond(Respond(rq, 200, [letters |-> <<>>]), 500, FetchListError)

NoFolderResponse404(rq) == Respond(rq, 404, [error |-> "Letters folder not found"])

\* line 171: the response when no folder was found
NoFolderResponse(rq) == Respond(rq, 200, [letters |-> <<>>])

\* fields 'files(id, name, ...)' of line 179: what the response tells of each file
Summaries(fs, ids) == [k \in 1..Len(ids) |-> [id |-> ids[k], name |-> fs[ids[k]].name]]

\* lines 149-168: validation, client setup, folder query issued
GetLettersStart(r, tokens) ==
  /\ CanArrive(r)
  /\ \E accessToken \in tokens :
       LET rq == [req[r] EXCEPT !.kind = "list", !.accessToken = accessToken]
       IN IF Falsy(accessToken)
            THEN req' = [req EXCEPT ![r] =
                           Respond(rq, 400, [error |-> "Access token is required"])]
            ELSE req' = [req EXCEPT ![r] =
                           [rq EXCEPT !.auth = accessToken,
                                      !.pc = "listFolderQuery",
                                      !.calls = <<Call("drive.files.list", accessToken, FolderQuery)>>]]
  /\ UNCHANGED <<files, trashes>>

GetLettersFolderQueryEnsure(r) ==
  /\ req[r].pc = "listFolderQuery"
  /\ \/ \E res \in FilesList(files, FolderQuery) :
          LET done == [req[r] EXCEPT !.calls = Complete(@, "ok", res)]
          IN IF Len(res) = 0
               THEN /\ req' = [req EXCEPT ![r] = NoFolderResponse(done)]
                    /\ files' = IF Len(files) < MaxFiles THEN CreateFolder(files) ELSE files
               ELSE /\ req' = [req EXCEPT ![r] =
                                 [done EXCEPT !.folderId = FirstEntry(res),
                                              !.pc = "listFileQuery",
                                              !.calls = Append(@, Call("drive.files.list", done.auth,
                                                                       FileQuery(FirstEntry(res))))]]
                    /\ UNCHANGED files
     \/ (\E d \in ErrorDetails : ListFail(r, d)) /\ UNCHANGED files
  /\ UNCHANGED trashes

\* lines 165-180: the folder query returns
GetLettersFolderQuery(r) ==
  /\ req[r].pc = "listFolderQuery"
  /\ \/ \E res \in FilesList(files, FolderQuery) :
          LET done == [req[r] EXCEPT !.calls = Complete(@, "ok", res)]
          IN IF Len(res) = 0
               THEN req' = [req EXCEPT ![r] = NoFolderResponse(done)]
               ELSE req' = [req EXCEPT ![r] =
                              [done EXCEPT !.folderId = FirstEntry(res),
                                           !.pc = "listFileQuery",
                                           !.calls = Append(@, Call("drive.files.list", done.auth,
                                                                    FileQuery(FirstEntry(res))))]]
     \/ \E d \in ErrorDetails : ListFail(r, d)
  /\ UNCHANGED <<files, trashes>>

\* lines 177-182: the folder-contents query returns, the response is sent
GetLettersFileQuery(r) ==
  /\ req[r].pc = "listFileQuery"
  /\ \/ \E res \in FilesList(files, req[r].calls[Len(req[r].calls)].arg) :
          req' = [req EXCEPT ![r] =
                    Respond([@ EXCEPT !.calls = Complete(@, "ok", res)], 200,
                            [letters |-> Summaries(files, res)])]
     \/ \E d \in ErrorDetails : ListFail(r, d)
  /\ UNCHANGED <<files, trashes>>

\* --------------------------------------------------------------------------
\* GET /api/letters/:id
\* --------------------------------------------------------------------------
FetchLetterError == [error |-> "Failed to fetch letter from Google Drive"]

\* catch block, lines 232-235
ReadFail(r, detail) ==
  req' = [req EXCEPT ![r] =
            Respond([@ EXCEPT !.calls = Complete(@, "error", <<>>), !.logged = detail],
                    500, FetchLetterError)]

\* ids a client may ask for: the last two ids the Drive can hold
ParamIds == {MaxFiles - 1, MaxFiles}

ParagraphTextSpaced(elements) ==
  LET T(e) == IF e.kind = "textRun" THEN e.content ELSE ""
      F[k \in 0..Len(elements)] ==
        IF k = 0 THEN "" ELSE IF k = 1 THEN T(elements[1]) ELSE F[k - 1] \o " " \o T(elements[k])
  IN F[Len(elements)]

\* lines 217-221: the text runs of one paragraph, appended in order
RECURSIVE ParagraphText(_)
ParagraphText(elements) ==
  IF elements = <<>> THEN ""
  ELSE (IF Head(elements).kind = "textRun" THEN Head(elements).content ELSE "")
         \o ParagraphText(Tail(elements))

RECURSIVE BodyTextAllBlocks(_)
BodyTextAllBlocks(blocks) ==
  IF blocks = <<>> THEN ""
  ELSE ParagraphText(Head(blocks).elements) \o BodyTextAllBlocks(Tail(blocks))

\* lines 215-223: the paragraphs of the body, in order; other blocks are skipped
RECURSIVE BodyText(_)
BodyText(blocks) ==
  IF blocks = <<>> THEN ""
  ELSE (IF Head(blocks).kind = "paragraph" THEN ParagraphText(Head(blocks).elements) ELSE "")
         \o BodyText(Tail(blocks))

\* lines 213-224: content of a fetched document
ExtractContent(document) ==
  IF document.hasBody THEN BodyText(document.body) ELSE ""

\* docs.documents.get: the document as the Docs API returns it
GetDocument(fs, id) ==
  [documentId |-> id, title |-> fs[id].name, hasBody |-> fs[id].hasBody, body |-> fs[id].body]

\* lines 191-210: validation, client setup, document fetch issued
GetLetterStart(r, tokens) ==
  /\ CanArrive(r)
  /\ \E accessToken \in tokens, id \in ParamIds :
       LET rq == [req[r] EXCEPT !.kind = "read", !.accessToken = accessToken, !.id = id]
       IN IF Falsy(accessToken)
            THEN req' = [req EXCEPT ![r] =
                           Respond(rq, 400, [error |-> "Access token is required"])]
            ELSE req' = [req EXCEPT ![r] =
                           [rq EXCEPT !.auth = accessToken,
                                      !.pc = "docGet",
                                      !.calls = <<Call("docs.documents.get", accessToken, id)>>]]
  /\ UNCHANGED <<files, trashes>>

\* lines 208-230: the document fetch returns, the response is sent
GetLetterDocGet(r) ==
  /\ req[r].pc = "docGet"
  /\ LET id == req[r].calls[Len(req[r].calls)].arg
     IN \/ /\ id \in FileIds
           /\ files[id].mimeType = DocMime
           /\ LET document == GetDocument(files, id)
              IN req' = [req EXCEPT ![r] =
                           Respond([@ EXCEPT !.calls = Complete(@, "ok", <<id>>)], 200,
                                   [id |-> document.documentId,
                                    title |-> document.title,
                                    content |-> ExtractContent(document)])]
        \/ \E d \in ErrorDetails : ReadFail(r, d)
  /\ UNCHANGED <<files, trashes>>

\* --------------------------------------------------------------------------
\* The user of the Drive account, outside the server
\* --------------------------------------------------------------------------
TrashFile ==
  /\ trashes < MaxTrash
  /\ \E i \in FileIds :
       /\ i # RootId
       /\ ~files[i].trashed
       /\ files' = [files EXCEPT ![i].trashed = TRUE]
  /\ trashes' = trashes + 1
  /\ UNCHANGED req

\* the requests of one client
Next ==
  \/ \E r \in Req : PostLettersStart(r, ClientTokens)
  \/ \E r \in Req : PostLettersFolderQuery(r)
  \/ \E r \in Req : PostLettersFolderCreate(r)
  \/ \E r \in Req : PostLettersDocCreate(r)
  \/ \E r \in Req : PostLettersInsertText(r)
  \/ \E r \in Req : PostLettersReparent(r)
  \/ \E r \in Req : GetLettersStart(r, ClientTokens)
  \/ \E r \in Req : GetLettersFolderQuery(r)
  \/ \E r \in Req : GetLettersFileQuery(r)
  \/ \E r \in Req : GetLetterStart(r, ClientTokens)
  \/ \E r \in Req : GetLetterDocGet(r)

Spec == Init /\ [][Next]_vars

\* --------------------------------------------------------------------------
\* Create-letter and list-letters requests while the user trashes files
\* --------------------------------------------------------------------------
\* the requests of one client, which sends every field
PostLettersStartValid(r) == PostLettersStart(r, {ValidToken}) /\ req'[r].status # 400
GetLettersStartValid(r) == GetLettersStart(r, {ValidToken})

NextTrash ==
  \/ \E r \in Req : PostLettersStartValid(r)
  \/ \E r \in Req : PostLettersFolderQuery(r)
  \/ \E r \in Req : PostLettersFolderCreate(r)
  \/ \E r \in Req : PostLettersDocCreate(r)
  \/ \E r \in Req : PostLettersInsertText(r)
  \/ \E r \in Req : PostLettersReparent(r)
  \/ \E r \in Req : GetLettersStartValid(r)
  \/ \E r \in Req : GetLettersFolderQuery(r)
  \/ \E r \in Req : GetLettersFileQuery(r)
  \/ TrashFile

SpecTrash == Init /\ [][NextTrash]_vars

\* --------------------------------------------------------------------------
\* The same requests when every downstream call returns or fails in the end
\* --------------------------------------------------------------------------
\* the outstanding downstream call of request r completes
CallReturns(r) ==
  \/ PostLettersFolderQuery(r)
  \/ PostLettersFolderCreate(r)
  \/ PostLettersDocCreate(r)
  \/ PostLettersInsertText(r)
  \/ PostLettersReparent(r)
  \/ GetLettersFolderQuery(r)
  \/ GetLettersFileQuery(r)
  \/ GetLetterDocGet(r)

SpecLive == Init /\ [][Next]_vars /\ \A r \in Req : WF_vars(CallReturns(r))

\* --------------------------------------------------------------------------
\* Requests of clients with different tokens, every field sent
\* --------------------------------------------------------------------------
SentTokens == Tokens \ {Undefined}

PostLettersStartTokens(r) == PostLettersStart(r, SentTokens) /\ req'[r].status # 400
GetLettersStartTokens(r) == GetLettersStart(r, SentTokens)
GetLetterStartTokens(r) == GetLetterStart(r, SentTokens)

NextTokens ==
  \/ \E r \in Req : PostLettersStartTokens(r)
  \/ \E r \in Req : PostLettersFolderQuery(r)
  \/ \E r \in Req : PostLettersFolderCreate(r)
  \/ \E r \in Req : PostLettersDocCreate(r)
  \/ \E r \in Req : PostLettersInsertText(r)
  \/ \E r \in Req : PostLettersReparent(r)
  \/ \E r \in Req : GetLettersStartTokens(r)
  \/ \E r \in Req : GetLettersFolderQuery(r)
  \/ \E r \in Req : GetLettersFileQuery(r)
  \/ \E r \in Req : GetLetterStartTokens(r)
  \/ \E r \in Req : GetLetterDocGet(r)

SpecTokens == Init /\ [][NextTokens]_vars

\* --------------------------------------------------------------------------
\* The same requests on a Drive that already holds folders named "Letters"
\* --------------------------------------------------------------------------
MaxDup == 2      \* "Letters" folders in the Drive at the start

InitDup ==
  /\ \E n \in 0..MaxDup :
       files = [i \in 1..(n + 1) |->
                  IF i = RootId THEN RootFolder ELSE NewFile(FolderMime, LettersName)]
  /\ req = [r \in Req |-> IdleReq]
  /\ trashes = 0

NextDup ==
  \/ \E r \in Req : PostLettersStartValid(r)
  \/ \E r \in Req : PostLettersFolderQuery(r)
  \/ \E r \in Req : PostLettersFolderCreate(r)
  \/ \E r \in Req : PostLettersDocCreate(r)
  \/ \E r \in Req : PostLettersInsertText(r)
  \/ \E r \in Req : PostLettersReparent(r)
  \/ \E r \in Req : GetLettersStartValid(r)
  \/ \E r \in Req : GetLettersFolderQuery(r)
  \/ \E r \in Req : GetLettersFileQuery(r)

SpecDup == InitDup /\ [][NextDup]_vars

\* --------------------------------------------------------------------------
\* Read-letter requests for documents with any structured body
\* --------------------------------------------------------------------------
MaxBlocks == 2   \* blocks of a document body
MaxRuns == 2     \* elements of a paragraph

SeqsUpTo(S, n) == UNION {[1..k -> S] : k \in 0..n}

\* the elements of a paragraph: text runs, and elements that carry no text run
Runs ==
  {[kind |-> "textRun", content |-> "Hello, "],
   [kind |-> "textRun", content |-> "world!"],
   [kind |-> "inlineObject", content |-> "obj"]}

\* the blocks of a body: paragraphs, and a table whose cell holds text
Blocks ==
  {[kind |-> "paragraph", elements |-> e] : e \in SeqsUpTo(Runs, MaxRuns)}
    \cup {[kind |-> "table", elements |-> <<[kind |-> "textRun", content |-> "cell"]>>]}

Bodies == SeqsUpTo(Blocks, MaxBlocks)

\* a document the user wrote in the Docs editor
StoredDoc(hasBody, body) ==
  [mimeType |-> DocMime, name |-> "T1", hasBody |-> hasBody, body |-> body,
   parents |-> {RootId}, trashed |-> FALSE]

\* the Drive holds documents of one body, up to the ids a client asks for
InitRead ==
  /\ \E hasBody \in BOOLEAN :
       \E body \in (IF hasBody THEN Bodies ELSE {<<>>}) :
         files = [i \in 1..(MaxFiles - 1) |->
                    IF i = RootId THEN RootFolder ELSE StoredDoc(hasBody, body)]
  /\ req = [r \in Req |-> IdleReq]
  /\ trashes = 0

\* one request is served
NextRead ==
  \/ GetLetterStart(1, {ValidToken})
  \/ GetLetterDocGet(1)

SpecRead == InitRead /\ [][NextRead]_vars

\* --------------------------------------------------------------------------
\* Create-letter requests served one after another
\* --------------------------------------------------------------------------
NoneInFlight == \A q \in Req : req[q].pc \in {"idle", "done"}

PostLettersStartAlone(r) == NoneInFlight /\ PostLettersStart(r, ClientTokens)

NextSeq ==
  \/ \E r \in Req : PostLettersStartAlone(r)
  \/ \E r \in Req : PostLettersFolderQuery(r)
  \/ \E r \in Req : PostLettersFolderCreate(r)
  \/ \E r \in Req : PostLettersDocCreate(r)
  \/ \E r \in Req : PostLettersInsertText(r)
  \/ \E r \in Req : PostLettersReparent(r)

SpecSeq == Init /\ [][NextSeq]_vars

\* --------------------------------------------------------------------------
\* Vocabulary of the properties
\* --------------------------------------------------------------------------
IsCreate(r) == req[r].kind = "create"
IsList(r) == req[r].kind = "list"
IsRead(r) == req[r].kind = "read"

\* positions in the call log of r of the calls to api
CallsTo(r, api) == {k \in 1..Len(req[r].calls) : req[r].calls[k].api = api}
OkCallsTo(r, api) == {k \in CallsTo(r, api) : req[r].calls[k].outcome = "ok"}

\* the api names of the call log of r, in order of issue
Apis(r) == [k \in 1..Len(req[r].calls) |-> req[r].calls[k].api]

IsPrefix(s, t) == Len(s) <= Len(t) /\ \A k \in 1..Len(s) : s[k] = t[k]

\* a field that is absent or empty
Absent(v) == v \in {"<undefined>", ""}
FieldMissing(r) == Absent(req[r].content) \/ Absent(req[r].title) \/ Absent(req[r].accessToken)

\* the last call of r failed
LastCallFailed(r) ==
  req[r].calls # <<>> /\ req[r].calls[Len(req[r].calls)].outcome = "error"
LastApi(r) == req[r].calls[Len(req[r].calls)].api

AllCallsOk(r) == \A k \in 1..Len(req[r].calls) : req[r].calls[k].outcome = "ok"

\* the folders named "Letters", and those of them that are not trashed
LettersFolders == {i \in FileIds : files[i].mimeType = FolderMime /\ files[i].name = LettersName}
LiveLettersFolders == {i \in LettersFolders : ~files[i].trashed}

\* the text fragments of a body, one after another: those of the text runs of
\* its paragraphs
IsParagraph(b) == b.kind = "paragraph"
IsTextRun(e) == e.kind = "textRun"
RunsOf(body) ==
  LET pars == SelectSeq(body, IsParagraph)
      F[k \in 0..Len(pars)] ==
        IF k = 0 THEN <<>> ELSE F[k - 1] \o SelectSeq(pars[k].elements, IsTextRun)
  IN F[Len(pars)]
Fragments(body) == [k \in 1..Len(RunsOf(body)) |-> RunsOf(body)[k].content]

\* the strings of a sequence written one after another, nothing in between
Join(strs) ==
  LET J[k \in 0..Len(strs)] == IF k = 0 THEN "" ELSE J[k - 1] \o strs[k]
  IN J[Len(strs)]

\* a read-letter request that was answered with a document
ReadOk(r) == IsRead(r) /\ req[r].pc = "done" /\ req[r].calls[1].outcome = "ok"

\* --------------------------------------------------------------------------
\* Properties
\* --------------------------------------------------------------------------

\* C1: a create-letter request with content, title and accessToken whose
\* downstream calls all succeeded answers 201, and the 201 response carries the
\* id that the document-create call returned and a documentUrl built around
\* exactly that id.
C1_CreateReturnsIdAndUrl ==
  \A r \in Req :
    /\ (/\ IsCreate(r) /\ req[r].pc = "done"
        /\ ~FieldMissing(r)
        /\ AllCallsOk(r)) => req[r].status = 201
    /\ (IsCreate(r) /\ req[r].status = 201) =>
         /\ Cardinality(OkCallsTo(r, "docs.documents.create")) = 1
         /\ \A k \in OkCallsTo(r, "docs.documents.create") :
              LET id == req[r].calls[k].result[1]
              IN /\ req[r].body.documentId = id
                 /\ Len(req[r].body.documentUrl) = 3
                 /\ req[r].body.documentUrl[2] = id
                 /\ id \in FileIds
                 /\ files[id].mimeType = DocMime

C1_Witness == \E r \in Req : IsCreate(r) /\ req[r].status = 201

\* C2 as stated: with requests served one after another, the first request
\* that answers 201 created exactly one folder, every later request issued no
\* folder-create call, and there is at most one "Letters" folder.
C2_FirstSuccessfulCreatesFolder ==
  /\ Cardinality(LettersFolders) <= 1
  /\ \A r \in Req :
       (/\ IsCreate(r) /\ req[r].status = 201
        /\ \A q \in Req : q < r => req[q].status # 201) =>
         /\ Cardinality(OkCallsTo(r, "drive.files.create")) = 1
         /\ \A q \in Req : q > r => CallsTo(q, "drive.files.create") = {}

\* C2 amended: with requests served one after another, at most one
\* folder-create call ever succeeds (in a request that may itself answer 500
\* later on); every request that arrives after it issues no folder-create call
\* and uses that folder; a request that answers 201 used the one existing
\* folder; the number of "Letters" folders never exceeds one.
C2_SequentialOneFolder ==
  /\ Cardinality(LettersFolders) <= 1
  /\ \A q, r \in Req :
       (q < r /\ OkCallsTo(q, "drive.files.create") # {}) =>
         /\ CallsTo(r, "drive.files.create") = {}
         /\ req[r].folderId # NoId => req[r].folderId = req[q].folderId
  /\ \A r \in Req :
       (IsCreate(r) /\ req[r].status = 201) =>
         /\ LettersFolders = {req[r].folderId}
         /\ \E q \in Req : q <= r /\ Cardinality(OkCallsTo(q, "drive.files.create")) = 1

\* a later request answered 201 with the folder an earlier request created
C2_Witness ==
  \E q, r \in Req :
    /\ q < r
    /\ OkCallsTo(q, "drive.files.create") # {}
    /\ IsCreate(r) /\ req[r].status = 201
    /\ CallsTo(r, "drive.files.create") = {}
    /\ req[r].folderId = req[q].folderId

\* C3: nothing guards the folder creation: a folder-create call that succeeds
\* always adds one more folder named "Letters", whatever folders exist by
\* then; so two requests whose queries both came back empty end with two
\* non-trashed "Letters" folders.
C3_FolderCreateUnguarded ==
  [][\A r \in Req :
       (req[r].pc = "folderCreate" /\ req'[r].pc = "docCreate") =>
         /\ Cardinality(LiveLettersFolders') = Cardinality(LiveLettersFolders) + 1
         /\ req'[r].folderId \in LiveLettersFolders' \ LiveLettersFolders]_vars

\* two requests each created a folder, and both folders are there
C3_Witness ==
  /\ Cardinality(LiveLettersFolders) = 2
  /\ \E q, r \in Req :
       /\ q # r
       /\ OkCallsTo(q, "drive.files.create") # {} /\ req[q].calls[1].result = <<>>
       /\ OkCallsTo(r, "drive.files.create") # {} /\ req[r].calls[1].result = <<>>

\* the two orders in which create-letter issues its calls
CreateOrderFound ==
  <<"drive.files.list", "docs.documents.create", "docs.documents.batchUpdate",
    "drive.files.update">>
CreateOrderNotFound ==
  <<"drive.files.list", "drive.files.create", "docs.documents.create",
    "docs.documents.batchUpdate", "drive.files.update">>

\* C4: a create-letter request issues its calls in the order folder query,
\* folder create (only after an empty query result), document create, batch
\* update, update, each one only after the previous one succeeded; the batch
\* update holds one insertText of the whole content at index 1 for the created
\* document; a 201 is sent only after the update succeeded, and then the
\* document exists with the title, holds the content and has the folder among
\* its parents.
C4_CreatePipelineOrder ==
  \A r \in Req : IsCreate(r) =>
    /\ IsPrefix(Apis(r), CreateOrderFound) \/ IsPrefix(Apis(r), CreateOrderNotFound)
    /\ CallsTo(r, "drive.files.create") # {} <=>
         (Len(req[r].calls) > 1 /\ req[r].calls[1].result = <<>>)
    /\ \A k \in 1..Len(req[r].calls) - 1 : req[r].calls[k].outcome = "ok"
    /\ \A k \in CallsTo(r, "docs.documents.batchUpdate") :
         /\ req[r].calls[k - 1].api = "docs.documents.create"
         /\ req[r].calls[k].arg =
              [documentId |-> req[r].calls[k - 1].result[1],
               requests |-> <<[insertText |-> [index |-> 1, text |-> req[r].content]]>>]
    /\ \A k \in CallsTo(r, "drive.files.update") :
         req[r].calls[k].arg = [fileId |-> req[r].documentId, addParents |-> req[r].folderId]
    /\ req[r].status = 201 =>
         /\ AllCallsOk(r)
         /\ Apis(r) \in {CreateOrderFound, CreateOrderNotFound}
         /\ req[r].documentId \in FileIds
         /\ files[req[r].documentId].mimeType = DocMime
         /\ files[req[r].documentId].name = req[r].title
         /\ BodyText(files[req[r].documentId].body) = req[r].content
         /\ req[r].folderId \in LettersFolders
         /\ req[r].folderId \in files[req[r].documentId].parents

\* a 201 after all five calls
C4_Witness ==
  \E r \in Req : IsCreate(r) /\ req[r].status = 201 /\ Apis(r) = CreateOrderNotFound

\* C5: a create-letter request whose batch update or update failed after its
\* document-create succeeded answers 500; the document is still there with its
\* title, without the folder among its parents, with an empty body if the batch
\* update failed and with the content if the update failed; the request issued
\* no call other than the five of the pipeline, and none after the failure.
C5_NoRollback ==
  \A r \in Req :
    (IsCreate(r) /\ LastCallFailed(r) /\ OkCallsTo(r, "docs.documents.create") # {}) =>
      LET d == req[r].documentId
      IN /\ req[r].status = 500 /\ req[r].pc = "done"
         /\ LastApi(r) \in {"docs.documents.batchUpdate", "drive.files.update"}
         /\ d \in FileIds
         /\ files[d].mimeType = DocMime
         /\ files[d].name = req[r].title
         /\ req[r].folderId \notin files[d].parents
         /\ LastApi(r) = "docs.documents.batchUpdate" => files[d].body = <<>>
         /\ LastApi(r) = "drive.files.update" => BodyText(files[d].body) = req[r].content
         /\ \A k \in 1..Len(req[r].calls) :
              req[r].calls[k].api \in {"drive.files.list", "drive.files.create",
                                       "docs.documents.create",
                                       "docs.documents.batchUpdate", "drive.files.update"}

\* one request failed at the batch update, another at the update
C5_Witness ==
  \E q, r \in Req :
    /\ IsCreate(q) /\ LastCallFailed(q) /\ LastApi(q) = "docs.documents.batchUpdate"
    /\ IsCreate(r) /\ LastCallFailed(r) /\ LastApi(r) = "drive.files.update"

\* C6: in each endpoint a failed downstream call is the last call of its
\* request and the request answers 500, once; a call is issued only after the
\* calls before it succeeded; no api is called twice by one request, except
\* drive.files.list by list-letters, with two different queries.
C6_FailureStopsRequest ==
  \A r \in Req :
    /\ \A k \in 1..Len(req[r].calls) :
         /\ req[r].calls[k].outcome = "error" =>
              /\ k = Len(req[r].calls)
              /\ req[r].pc = "done" /\ req[r].status = 500 /\ req[r].sent = 1
         /\ k < Len(req[r].calls) => req[r].calls[k].outcome = "ok"
         /\ \A j \in 1..(k - 1) :
              req[r].calls[j].api = req[r].calls[k].api =>
                IsList(r) /\ req[r].calls[j].arg # req[r].calls[k].arg
    /\ req[r].status = 500 => LastCallFailed(r)

\* a create-letter request failed in the middle, a list-letters request at its
\* second query
C6_Witness ==
  \E q, r \in Req :
    /\ IsCreate(q) /\ LastCallFailed(q) /\ LastApi(q) = "docs.documents.batchUpdate"
    /\ IsList(r) /\ LastCallFailed(r) /\ Len(req[r].calls) = 2

\* C7: a list-letters or read-letter request without accessToken answers 400
\* and has made no downstream call.
C7_NoTokenNoCall ==
  \A r \in Req :
    ((IsList(r) \/ IsRead(r)) /\ Absent(req[r].accessToken)) =>
      /\ req[r].pc = "done" /\ req[r].status = 400
      /\ req[r].calls = <<>>

C7_Witness ==
  \E q, r \in Req :
    /\ IsList(q) /\ Absent(req[q].accessToken) /\ req[q].status = 400
    /\ IsRead(r) /\ Absent(req[r].accessToken) /\ req[r].status = 400

\* C8: the step in which a create-letter request with a missing field arrives
\* answers 400, issues no call and leaves the Drive as it was; the request
\* does nothing afterwards.
C8_MissingFieldRejected ==
  [][\A r \in Req :
       /\ (/\ req[r].pc = "idle" /\ req'[r].kind = "create"
           /\ \/ Absent(req'[r].content)
              \/ Absent(req'[r].title)
              \/ Absent(req'[r].accessToken)) =>
            /\ req'[r].pc = "done" /\ req'[r].status = 400
            /\ req'[r].calls = <<>>
            /\ files' = files
       /\ req[r].pc = "done" => req'[r] = req[r]]_vars

\* a request with content and token but an empty title was answered 400
C8_Witness ==
  \E r \in Req :
    /\ IsCreate(r) /\ req[r].status = 400
    /\ Absent(req[r].title) /\ ~Absent(req[r].content) /\ ~Absent(req[r].accessToken)

\* C9: two create-letter requests that answered 201 for the same title have
\* different documentIds, each from its own document-create call; the only
\* query a create-letter request makes is the one for the "Letters" folder.
C9_TitleNotUnique ==
  \A q, r \in Req :
    (/\ q # r /\ IsCreate(q) /\ IsCreate(r)
     /\ req[q].status = 201 /\ req[r].status = 201
     /\ req[q].title = req[r].title) =>
      /\ req[q].body.documentId # req[r].body.documentId
      /\ \A x \in {q, r} :
           /\ Cardinality(CallsTo(x, "docs.documents.create")) = 1
           /\ \A k \in CallsTo(x, "docs.documents.create") :
                /\ req[x].calls[k].arg = req[x].title
                /\ req[x].calls[k].result = <<req[x].body.documentId>>
           /\ files[req[x].body.documentId].name = req[x].title
           /\ \A k \in CallsTo(x, "drive.files.list") :
                req[x].calls[k].arg.by = "name" /\ req[x].calls[k].arg.name = "Letters"

C9_Witness ==
  \E q, r \in Req :
    /\ q # r /\ IsCreate(q) /\ IsCreate(r)
    /\ req[q].status = 201 /\ req[r].status = 201
    /\ req[q].title = req[r].title

\* the non-trashed documents that have the folder among their parents
LettersIn(folderId) ==
  {i \in FileIds : files[i].mimeType = DocMime /\ ~files[i].trashed
                     /\ folderId \in files[i].parents}

\* C10: when the folder query of a list-letters request succeeds and there is
\* no non-trashed "Letters" folder, the request answers 200 with letters = <<>>
\* after that single call; when its folder-contents query succeeds and the
\* folder holds no non-trashed document, it answers 200 with letters = <<>>.
C10_EmptyListIsSuccess ==
  [][\A r \in Req :
       (/\ req[r].pc \in {"listFolderQuery", "listFileQuery"}
        /\ req'[r].calls[Len(req[r].calls)].outcome = "ok") =>
         /\ (req[r].pc = "listFolderQuery" /\ LiveLettersFolders = {}) =>
              /\ req'[r].pc = "done" /\ req'[r].status = 200
              /\ req'[r].body = [letters |-> <<>>]
              /\ Len(req'[r].calls) = 1
         /\ (req[r].pc = "listFileQuery" /\ LettersIn(req[r].folderId) = {}) =>
              /\ req'[r].pc = "done" /\ req'[r].status = 200
              /\ req'[r].body = [letters |-> <<>>]]_vars

\* the folder was found, its only document is trashed, the answer is the empty list
C10_Witness ==
  \E r \in Req :
    /\ IsList(r) /\ req[r].status = 200 /\ req[r].body = [letters |-> <<>>]
    /\ Len(req[r].calls) = 2 /\ AllCallsOk(r)
    /\ \E i \in FileIds : files[i].mimeType = DocMime /\ files[i].trashed
                             /\ req[r].folderId \in files[i].parents

\* C11: read-letter answers with the document's id and title and with the text
\* fragments of all runs of all paragraphs of its body, in document order,
\* written one after another with nothing in between.
C11_ContentIsConcatenation ==
  \A r \in Req :
    (ReadOk(r) /\ files[req[r].id].hasBody) =>
      /\ req[r].status = 200
      /\ req[r].body.id = req[r].id
      /\ req[r].body.title = files[req[r].id].name
      /\ req[r].body.content = Join(Fragments(files[req[r].id].body))

\* "Hello, " and "world!" in two runs, with an element without text in between
\* or in two paragraphs: the answer is "Hello, world!"
C11_Witness ==
  \E r \in Req :
    /\ ReadOk(r) /\ req[r].body.content = "Hello, world!"
    /\ Fragments(files[req[r].id].body) = <<"Hello, ", "world!">>
    /\ Len(files[req[r].id].body) = 2

\* a body without any text run in a paragraph
NoText(body) ==
  \A k \in 1..Len(body) :
    body[k].kind = "paragraph" =>
      \A j \in 1..Len(body[k].elements) : body[k].elements[j].kind # "textRun"

\* C12: read-letter answers 200 with content "" for a document without body,
\* with a body of non-paragraph blocks only, or with paragraphs whose runs carry
\* no text; and taking the non-paragraph blocks out of a body does not change
\* the content.
C12_EmptyContentIsSuccess ==
  \A r \in Req :
    ReadOk(r) =>
      LET doc == files[req[r].id]
      IN /\ req[r].status = 200
         /\ (~doc.hasBody \/ NoText(doc.body)) => req[r].body.content = ""
         /\ doc.hasBody =>
              req[r].body.content = Join(Fragments(SelectSeq(doc.body, IsParagraph)))

\* a body that is only a table was read as ""
C12_Witness ==
  \E r \in Req :
    /\ ReadOk(r) /\ req[r].status = 200 /\ req[r].body.content = ""
    /\ files[req[r].id].hasBody
    /\ Len(files[req[r].id].body) = 1
    /\ files[req[r].id].body[1].kind = "table"

\* C13: create-letter issues the folder-create call exactly when its folder
\* query returned no entry; otherwise the folder it uses, and adds as parent,
\* is the first entry of the result, however many entries there are.
C13_FirstFolderWins ==
  \A r \in Req :
    (IsCreate(r) /\ Len(req[r].calls) >= 2) =>
      LET res == req[r].calls[1].result
      IN /\ req[r].calls[1].outcome = "ok"
         /\ CallsTo(r, "drive.files.create") # {} <=> res = <<>>
         /\ CallsTo(r, "drive.files.create") \subseteq {2}
         /\ res # <<>> => req[r].folderId = res[1]
         /\ \A k \in OkCallsTo(r, "drive.files.create") :
              req[r].folderId = req[r].calls[k].result[1]
         /\ \A k \in CallsTo(r, "drive.files.update") :
              req[r].calls[k].arg.addParents = req[r].folderId

\* the query returned two folders, the newer one first, and that one became
\* the parent
C13_Witness ==
  \E r \in Req :
    /\ IsCreate(r) /\ req[r].status = 201
    /\ Len(req[r].calls[1].result) = 2
    /\ req[r].calls[1].result[1] > req[r].calls[1].result[2]
    /\ req[r].calls[1].result[1] \in files[req[r].documentId].parents
    /\ req[r].calls[1].result[2] \notin files[req[r].documentId].parents

\* C14: a step of a list-letters or read-letter request, whatever its outcome,
\* leaves the Drive as it was: no file is added and no file's title, body,
\* parents or trashed flag changes.
C14_ReadsDoNotMutate ==
  [][(\E r \in Req : req'[r] # req[r] /\ req'[r].kind \in {"list", "read"}) =>
       files' = files]_vars

\* list-letters was answered with no letters, read-letter with an error, and
\* the Drive still holds nothing but its root
C14_Witness ==
  \E q, r \in Req :
    /\ IsList(q) /\ req[q].status = 200 /\ Len(req[q].calls) = 1
    /\ IsRead(r) /\ req[r].status = 500
    /\ files = <<RootFolder>>

\* the entries of a sequence
Range(seq) == {seq[k] : k \in 1..Len(seq)}

\* a create-letter or list-letters request that passed validation
PassedValidation(r) ==
  \/ IsCreate(r) /\ ~FieldMissing(r)
  \/ IsList(r) /\ ~Absent(req[r].accessToken)

\* C15: every create-letter and list-letters request that passed validation
\* has the folder query as its first call and issues it once; the result of
\* that query is the set of "Letters" folders that are not trashed when the
\* query is answered; the folder id of the request is the first entry of its
\* own result or the result of its own folder-create call, and it is not a
\* folder that was trashed before the query.
C15_FolderResolvedPerRequest ==
  /\ [](\A r \in Req : PassedValidation(r) =>
          /\ req[r].calls # <<>>
          /\ req[r].calls[1].api = "drive.files.list"
          /\ {k \in CallsTo(r, "drive.files.list") : req[r].calls[k].arg.by = "name"} = {1}
          /\ req[r].calls[1].arg.name = "Letters"
          /\ req[r].folderId # NoId =>
               \/ req[r].calls[1].result # <<>> /\ req[r].folderId = req[r].calls[1].result[1]
               \/ /\ req[r].calls[1].result = <<>>
                  /\ \E k \in OkCallsTo(r, "drive.files.create") :
                       req[r].folderId = req[r].calls[k].result[1])
  /\ [][\A r \in Req :
          (/\ req[r].pc \in {"folderQuery", "listFolderQuery"}
           /\ req'[r].calls[1].outcome = "ok") =>
            /\ Range(req'[r].calls[1].result) = LiveLettersFolders
            /\ req'[r].folderId # NoId => req'[r].folderId \in LiveLettersFolders]_vars

\* the folder of an answered request was trashed; a request that came later
\* found no folder and made its own
C15_Witness ==
  \E q, r \in Req :
    /\ q < r
    /\ IsCreate(q) /\ req[q].status = 201 /\ files[req[q].folderId].trashed
    /\ IsCreate(r) /\ req[r].calls[1].result = <<>>
    /\ req[r].folderId # NoId /\ req[r].folderId # req[q].folderId
    /\ req[r].folderId > req[q].documentId

GenericMessage(kind) ==
  IF kind = "create" THEN "Failed to save letter to Google Drive"
  ELSE IF kind = "list" THEN "Failed to fetch letters from Google Drive"
  ELSE "Failed to fetch letter from Google Drive"

\* C17: a request answered 500 carries only the fixed message of its endpoint;
\* the detail of the error is logged and is not in the response; two requests
\* of one endpoint that failed, at whatever step and with whatever detail,
\* got the same status and body.
C17_GenericFailureResponse ==
  /\ \A r \in Req :
       req[r].status = 500 =>
         /\ req[r].body = [error |-> GenericMessage(req[r].kind)]
         /\ req[r].logged \in {"auth rejected", "quota exceeded"}
         /\ req[r].body.error # req[r].logged
  /\ \A q, r \in Req :
       (req[q].status = 500 /\ req[r].status = 500 /\ req[q].kind = req[r].kind) =>
         req[q].body = req[r].body

\* two create-letter requests failed at different steps with different details
C17_Witness ==
  \E q, r \in Req :
    /\ IsCreate(q) /\ IsCreate(r)
    /\ req[q].status = 500 /\ req[r].status = 500
    /\ LastApi(q) # LastApi(r)
    /\ req[q].logged # req[r].logged

\* C18: every downstream call in the log of a request was made with the access
\* token that this request carried, in every interleaving of requests with
\* different tokens; the credentials of a request are its own token.
C18_OwnTokenOnly ==
  \A r \in Req :
    /\ \A k \in 1..Len(req[r].calls) : req[r].calls[k].token = req[r].accessToken
    /\ req[r].calls # <<>> => req[r].auth = req[r].accessToken

\* a create-letter request and a list-letters request with different tokens,
\* both past their second call, the later one answered first
C18_Witness ==
  \E q, r \in Req :
    /\ q < r
    /\ req[q].accessToken = "tokA" /\ req[r].accessToken = "tokB"
    /\ IsCreate(q) /\ req[q].pc = "reparent"
    /\ IsList(r) /\ req[r].status = 200 /\ Len(req[r].calls) = 2

\* the ids of the letters of a list-letters response
ListedIds(body) == {body.letters[k].id : k \in 1..Len(body.letters)}

\* C19: when the folder-contents query of a list-letters request succeeds, the
\* response lists exactly the non-trashed documents that have the folder of
\* this request (the first entry of its own folder query) among their parents;
\* so if there is only one "Letters" folder, every non-trashed document of a
\* create-letter request answered 201 is listed.  With two folders the two
\* requests may pick different ones, and an answered letter is not listed.
C19_ListedIffSameFolder ==
  [][\A r \in Req :
       (req[r].pc = "listFileQuery" /\ req'[r].status = 200) =>
         /\ req[r].folderId = req[r].calls[1].result[1]
         /\ ListedIds(req'[r].body) = LettersIn(req[r].folderId)
         /\ Cardinality(LettersFolders) = 1 =>
              \A q \in Req :
                (/\ IsCreate(q) /\ req[q].status = 201
                 /\ ~files[req[q].documentId].trashed) =>
                  req[q].documentId \in ListedIds(req'[r].body)]_vars

\* two folders: the letter was answered 201, the list-letters request that
\* started after it picked the other folder and does not list the letter
C19_Witness ==
  \E q, r \in Req :
    /\ q < r
    /\ Cardinality(LiveLettersFolders) = 2
    /\ IsCreate(q) /\ req[q].status = 201 /\ ~files[req[q].documentId].trashed
    /\ IsList(r) /\ req[r].status = 200 /\ Len(req[r].calls) = 2
    /\ req[r].folderId # req[q].folderId
    /\ req[q].documentId \notin ListedIds(req[r].body)

\* C20: a request has sent one response when it is done and none before; a
\* request that waits for a downstream call changes only when that call
\* completes (nothing times it out or cancels it); and if every downstream
\* call completes in the end, every request that arrived is answered.
C20_AnsweredExactlyOnce ==
  /\ [](\A r \in Req :
          /\ req[r].sent <= 1
          /\ req[r].pc = "done" <=> req[r].sent = 1
          /\ req[r].sent = 1 <=> req[r].status # 0)
  /\ [][\A r \in Req :
          (req[r].pc \notin {"idle", "done"} /\ req'[r] # req[r]) =>
            /\ req[r].calls[Len(req[r].calls)].outcome = "pending"
            /\ req'[r].calls[Len(req[r].calls)].outcome # "pending"]_vars
  /\ [][\A r \in Req : req[r].pc = "done" => req'[r] = req[r]]_vars
  /\ \A r \in Req : (req[r].pc # "idle") ~> (req[r].pc = "done")

\* a create-letter and a list-letters request, both answered once, after five
\* and two calls
C20_Witness ==
  \E q, r \in Req :
    /\ IsCreate(q) /\ req[q].status = 201 /\ req[q].sent = 1 /\ Len(req[q].calls) = 5
    /\ IsList(r) /\ req[r].status = 200 /\ req[r].sent = 1 /\ Len(req[r].calls) = 2
====
